---- MODULE Spec2Model ----
(***************************************************************************)
(* A model of the APALens adapters (src/src/adapters.py): the HttpResult   *)
(* container, HttpAdapter.get / HttpAdapter.post and the GraphQLAdapter    *)
(* built on top of them.  One adapter object is constructed in Init; every *)
(* public operation is one action that runs the whole handler against one  *)
(* outcome of the network chosen nondeterministically, and leaves what the *)
(* caller observes (requests dispatched, value returned or error raised)   *)
(* in the state.  The caller then drops that outcome (Return) and calls    *)
(* again.                                                                  *)
(***************************************************************************)
EXTENDS Integers, Sequences, FiniteSets, TLC

VARIABLES
    config,      \* the arguments the adapters were constructed with
    http_url,    \* HttpAdapter.url of an HttpAdapter constructed from them
    url,         \* HttpAdapter.url of the adapter owned by the GraphQLAdapter
    environ,     \* os.environ, restricted to APA_REFRESH_TOKEN
    pc,          \* "idle": no call in progress; "done": a call has completed
    call,        \* the operation called and its arguments
    net,         \* what the network did for the call's dispatch
    requests,    \* the requests handed to requests.get / requests.post
    decoded,     \* TRUE iff response.json() was invoked during the call
    classified,  \* TRUE iff the status-code branches were reached
    outcome,     \* the value returned or the exception raised
    calls,       \* the number of calls made on the adapter so far
    default_data,\* the dict objects created once as the default of the data
                 \* parameter of HttpResult.__init__, one per module
    payload_ref, \* the dict object the payload of the returned HttpResult is:
                 \* "own", "adapters" / "http_adapter" (that module's
                 \* default object), or "none" when there is no HttpResult
    log          \* the records handed to the logger during the call, and
                 \* the dispatch of the request, in the order they happened

vars == <<config, http_url, url, environ, pc, call, net, requests, decoded, classified, outcome,
          calls, default_data, payload_ref, log>>

-----------------------------------------------------------------------------
(* Python / JSON values, tagged by type.                                   *)

None == [t |-> "None"]

PyStr(s) == [t |-> "str", s |-> s]

PyInt(n) == [t |-> "int", n |-> n]

PyDict(m) == [t |-> "dict", m |-> m]

PyList(l) == [t |-> "list", l |-> l]

EmptyMap == [k \in {} |-> None]

EmptyDict == PyDict(EmptyMap)

\* Python truth value testing, as used by `x or y`, `if x:` and `not x`.
truthy(v) ==
    CASE v.t = "None" -> FALSE
      [] v.t = "str"  -> v.s # ""
      [] v.t = "int"  -> v.n # 0
      [] v.t = "dict" -> DOMAIN v.m # {}
      [] v.t = "list" -> Len(v.l) # 0

-----------------------------------------------------------------------------
(* Outcomes of a call or of a step of it.                                  *)

Return(v) == [kind |-> "return", value |-> v]

Raise(e) == [kind |-> "raise", exc |-> e.exc, message |-> e.message]

\* src/src/exceptions.py: the one adapter error, carrying its message.
HttpAdapterException(message) ==
    [exc |-> "HttpAdapterException", message |-> message]

\* An exception of another type that the adapter code does not construct.
OtherException(type) == [exc |-> type, message |-> ""]

\* The base classes of the exception types the code names in its except
\* clauses (requests.exceptions and the builtins they derive from).
Bases(type) ==
    CASE type = "ConnectionError"      -> {"RequestException"}
      [] type = "Timeout"              -> {"RequestException"}
      [] type = "ConnectTimeout"       -> {"ConnectionError", "Timeout"}
      [] type = "ReadTimeout"          -> {"Timeout"}
      [] type = "SSLError"             -> {"ConnectionError"}
      [] type = "ProxyError"           -> {"ConnectionError"}
      [] type = "TooManyRedirects"     -> {"RequestException"}
      [] type = "ChunkedEncodingError" -> {"RequestException"}
      [] type = "InvalidJSONError"     -> {"RequestException"}
      [] type = "JSONDecodeError"      -> {"InvalidJSONError", "ValueError"}
      [] type = "RequestException"     -> {"OSError"}
      [] type = "OSError"              -> {"Exception"}
      [] type = "ValueError"           -> {"Exception"}
      [] type = "KeyError"             -> {"LookupError"}
      [] type = "LookupError"          -> {"Exception"}
      [] type = "TypeError"            -> {"Exception"}
      [] type = "AttributeError"       -> {"Exception"}
      [] type = "HttpAdapterException" -> {"Exception"}
      [] OTHER                         -> {}

RECURSIVE IsSubclass(_, _)
IsSubclass(type, base) ==
    \/ type = base
    \/ \E b \in Bases(type) : IsSubclass(b, base)

\* `except (A, B):` catches an exception whose type derives from A or B.
Catches(clause, type) == \E c \in clause : IsSubclass(type, c)

-----------------------------------------------------------------------------
(* HttpResult                                                              *)

\* int(status_code) and str(message) leave an int and a str as they are.
HttpResult(status_code, message, data) ==
    [status_code |-> status_code, message |-> message, data |-> data]

\* The data argument left out of a call of HttpResult.
Omitted == [t |-> "omitted"]

\* HttpResult(status_code, message[, data]) of src/adapters.py: a data
\* argument left out is bound to the default object of the parameter.
HttpResult_new(status_code, message, data, default) ==
    Return(HttpResult(status_code, message,
                      IF data = Omitted THEN default ELSE data))

\* `"copyright" in data` followed by `del data["copyright"]`.
del_copyright(data) ==
    CASE data.t = "dict" ->
             Return(PyDict([k \in DOMAIN data.m \ {"copyright"} |-> data.m[k]]))
      [] data.t \in {"list", "str"} -> Return(data)
      [] OTHER -> Raise(OtherException("TypeError"))

\* HttpResult(status_code, message[, data]) of src/http_adapter.py.
HttpResult_variant_new(status_code, message, data, default) ==
    LET stripped == del_copyright(IF data = Omitted THEN default ELSE data)
    IN  IF stripped.kind = "raise" THEN stripped
        ELSE Return(HttpResult(status_code, message, stripped.value))

-----------------------------------------------------------------------------
(* HttpAdapter                                                             *)

\* HttpAdapter.__init__ with the version put before the base path.
HttpAdapter_init_version_first(ver, base_url, hostname, protocol) ==
    IF truthy(base_url) /\ truthy(ver)
    THEN protocol \o "://" \o hostname \o "/" \o ver.s \o "/" \o base_url.s \o "/"
    ELSE IF truthy(base_url)
    THEN protocol \o "://" \o hostname \o "/" \o base_url.s \o "/"
    ELSE IF truthy(ver)
    THEN protocol \o "://" \o hostname \o "/" \o ver.s \o "/"
    ELSE protocol \o "://" \o hostname \o "/"

HttpAdapter_init(ver, base_url, hostname, protocol) ==
    IF truthy(base_url) /\ truthy(ver)
    THEN protocol \o "://" \o hostname \o "/" \o base_url.s \o "/" \o ver.s \o "/"
    ELSE IF truthy(base_url)
    THEN protocol \o "://" \o hostname \o "/" \o base_url.s \o "/"
    ELSE IF truthy(ver)
    THEN protocol \o "://" \o hostname \o "/" \o ver.s \o "/"
    ELSE protocol \o "://" \o hostname \o "/"

\* What a handler hands back to its caller, with the trace of what it did.
Done(reqs, dec, cls, out) ==
    [requests |-> reqs, decoded |-> dec, classified |-> cls, outcome |-> out]

\* response.json(): the decoded body, or the decoder's error.
response_json(response) ==
    IF response.body.decodable
    THEN Return(response.body.json)
    ELSE Raise(OtherException("JSONDecodeError"))

\* f"{response.status_code}: {response.reason}"
StatusMessage(response) ==
    ToString(response.status_code) \o ": " \o response.reason

\* get_classify with only 200 taken for a success.
get_classify_only_200(response, data) ==
    IF response.status_code = 200
    THEN Return(HttpResult(response.status_code, response.reason, data))
    ELSE IF 400 <= response.status_code /\ response.status_code <= 499
    THEN Return(HttpResult(response.status_code, response.reason, EmptyDict))
    ELSE Raise(HttpAdapterException(StatusMessage(response)))

\* get_classify with redirects handled like client errors.
get_classify_redirect_result(response, data) ==
    IF 200 <= response.status_code /\ response.status_code <= 299
    THEN Return(HttpResult(response.status_code, response.reason, data))
    ELSE IF 300 <= response.status_code /\ response.status_code <= 499
    THEN Return(HttpResult(response.status_code, response.reason, EmptyDict))
    ELSE Raise(HttpAdapterException(StatusMessage(response)))

\* get_classify constructing the client-error HttpResult without data, its
\* payload then being the default object of the data parameter.
get_classify_default_payload(response, data) ==
    IF 200 <= response.status_code /\ response.status_code <= 299
    THEN Return(HttpResult(response.status_code, response.reason, data))
    ELSE IF 400 <= response.status_code /\ response.status_code <= 499
    THEN HttpResult_new(response.status_code, response.reason, Omitted,
                        default_data.adapters)
    ELSE Raise(HttpAdapterException(StatusMessage(response)))

\* The status branches of get, reached with the decoded body in `data`.
get_classify(response, data) ==
    IF 200 <= response.status_code /\ response.status_code <= 299
    THEN Return(HttpResult(response.status_code, response.reason, data))
    ELSE IF 400 <= response.status_code /\ response.status_code <= 499
    THEN Return(HttpResult(response.status_code, response.reason, EmptyDict))
    ELSE IF 500 <= response.status_code /\ response.status_code <= 599
    THEN Raise(HttpAdapterException(StatusMessage(response)))
    ELSE Raise(HttpAdapterException(StatusMessage(response)))

\* The except clause around requests.get.
get_dispatch_except(exc) ==
    IF Catches({"RequestException"}, exc)
    THEN Raise(HttpAdapterException("Request failed"))
    ELSE Raise(OtherException(exc))

\* The except clause around response.json() in get.
get_json_except(exc) ==
    IF Catches({"ValueError", "JSONDecodeError"}, exc)
    THEN Raise(HttpAdapterException("Bad JSON in response"))
    ELSE Raise(OtherException(exc))

\* get with its data argument sent as the JSON body.
get_sends_data(self_url, endpoint, ep_params, data, n) ==
    LET full_url == self_url \o endpoint
        request  == [method |-> "GET", url |-> full_url,
                     params |-> ep_params, json |-> data]
    IN  IF n.kind = "fault"
        THEN Done(<<request>>, FALSE, FALSE, get_dispatch_except(n.exc))
        ELSE LET body == response_json(n)
             IN  IF body.kind = "raise"
                 THEN Done(<<request>>, TRUE, FALSE, get_json_except(body.exc))
                 ELSE Done(<<request>>, TRUE, TRUE,
                           get_classify(n, body.value))

\* get with the server-error branch taken before the body is decoded.
get_status_first(self_url, endpoint, ep_params, data, n) ==
    LET full_url == self_url \o endpoint
        request  == [method |-> "GET", url |-> full_url,
                     params |-> ep_params, json |-> None]
    IN  IF n.kind = "fault"
        THEN Done(<<request>>, FALSE, FALSE, get_dispatch_except(n.exc))
        ELSE IF 500 <= n.status_code /\ n.status_code <= 599
        THEN Done(<<request>>, FALSE, TRUE,
                  Raise(HttpAdapterException(StatusMessage(n))))
        ELSE LET body == response_json(n)
             IN  IF body.kind = "raise"
                 THEN Done(<<request>>, TRUE, FALSE, get_json_except(body.exc))
                 ELSE Done(<<request>>, TRUE, TRUE,
                           get_classify(n, body.value))

get(self_url, endpoint, ep_params, data, n) ==
    LET full_url == self_url \o endpoint
        request  == [method |-> "GET", url |-> full_url,
                     params |-> ep_params, json |-> None]
    IN  IF n.kind = "fault"
        THEN Done(<<request>>, FALSE, FALSE, get_dispatch_except(n.exc))
        ELSE LET body == response_json(n)
             IN  IF body.kind = "raise"
                 THEN Done(<<request>>, TRUE, FALSE, get_json_except(body.exc))
                 ELSE Done(<<request>>, TRUE, TRUE,
                           get_classify(n, body.value))

\* post_classify with the decoded body kept on a client error.
post_classify_keeps_body(response, data) ==
    IF 200 <= response.status_code /\ response.status_code <= 299
    THEN Return(HttpResult(response.status_code, response.reason, data))
    ELSE IF 400 <= response.status_code /\ response.status_code <= 499
    THEN Return(HttpResult(response.status_code, response.reason, data))
    ELSE Raise(HttpAdapterException(StatusMessage(response)))

\* The status branches of post.
post_classify(response, data) ==
    IF 200 <= response.status_code /\ response.status_code <= 299
    THEN Return(HttpResult(response.status_code, response.reason, data))
    ELSE IF 400 <= response.status_code /\ response.status_code <= 499
    THEN Return(HttpResult(response.status_code, response.reason, EmptyDict))
    ELSE IF 500 <= response.status_code /\ response.status_code <= 599
    THEN Raise(HttpAdapterException(StatusMessage(response)))
    ELSE Raise(HttpAdapterException(StatusMessage(response)))

\* The except clause around requests.post, naming ConnectionError only.
post_dispatch_except_connection_only(exc) ==
    IF Catches({"ConnectionError"}, exc)
    THEN Raise(HttpAdapterException("Request failed"))
    ELSE Raise(OtherException(exc))

\* The except clause around requests.post.
post_dispatch_except(exc) ==
    IF Catches({"RequestException"}, exc)
    THEN Raise(HttpAdapterException("Request failed"))
    ELSE Raise(OtherException(exc))

\* The except clause around response.json() in post.
post_json_except(exc) ==
    IF Catches({"ValueError", "JSONDecodeError"}, exc)
    THEN Raise(HttpAdapterException("Bad JSON in response"))
    ELSE Raise(OtherException(exc))

\* post dispatching a second time after a transport fault.
post_retries_on_fault(self_url, endpoint, ep_params, data, n) ==
    LET full_url == self_url \o endpoint
        request  == [method |-> "POST", url |-> full_url,
                     params |-> ep_params, json |-> data]
    IN  IF n.kind = "fault"
        THEN Done(<<request, request>>, FALSE, FALSE,
                  post_dispatch_except(n.exc))
        ELSE LET body == response_json(n)
             IN  IF body.kind = "raise"
                 THEN Done(<<request>>, TRUE, FALSE, post_json_except(body.exc))
                 ELSE Done(<<request>>, TRUE, TRUE,
                           post_classify(n, body.value))

post(self_url, endpoint, ep_params, data, n) ==
    LET full_url == self_url \o endpoint
        request  == [method |-> "POST", url |-> full_url,
                     params |-> ep_params, json |-> data]
    IN  IF n.kind = "fault"
        THEN Done(<<request>>, FALSE, FALSE, post_dispatch_except(n.exc))
        ELSE LET body == response_json(n)
             IN  IF body.kind = "raise"
                 THEN Done(<<request>>, TRUE, FALSE, post_json_except(body.exc))
                 ELSE Done(<<request>>, TRUE, TRUE,
                           post_classify(n, body.value))

-----------------------------------------------------------------------------
(* The logger calls of get and post, which are the same statements in      *)
(* both, and in get of src/http_adapter.py.                                *)

\* A record handed to self._logger.debug or self._logger.error.
LogRecord(level, msg) == [ev |-> "log", level |-> level, msg |-> msg]

\* The request handed to requests.get / requests.post.
Dispatch(method) == [ev |-> "dispatch", level |-> "", msg |-> method]

\* logline_post: logline_pre joined to the template with " ,".
logline_post(full_url) ==
    "url=" \o full_url
        \o " ,success={}, status_code={}, message={}, url={}"

\* logline_post.format(success, status_code, message, url).
logline_post_format(full_url, success, status_code, message, resolved) ==
    "url=" \o full_url \o " ,success=" \o success
        \o ", status_code=" \o ToString(status_code)
        \o ", message=" \o message \o ", url=" \o resolved

\* response.url: the URL of the request with its parameters encoded into
\* the query string; no redirect is followed.
response_url(request) ==
    IF request.params = None THEN request.url
    ELSE request.url \o "?page=1"

\* The logger calls of the status branches; the last branch has none.
classify_log(request, response) ==
    IF 200 <= response.status_code /\ response.status_code <= 299
    THEN <<LogRecord("debug",
               logline_post_format(request.url, "success",
                   response.status_code, response.reason,
                   response_url(request)))>>
    ELSE IF 400 <= response.status_code /\ response.status_code <= 499
    THEN <<LogRecord("error",
               logline_post_format(request.url, "Invalid Request",
                   response.status_code, response.reason,
                   response_url(request)))>>
    ELSE IF 500 <= response.status_code /\ response.status_code <= 599
    THEN <<LogRecord("error",
               logline_post_format(request.url, "Internal error occurred",
                   response.status_code, response.reason,
                   response_url(request)))>>
    ELSE <<>>

\* Everything one call of get or post hands to the logger, and the
\* dispatch, in order.  str(e) of an exception is its class name here.
http_log(request, n) ==
    LET before == <<LogRecord("debug", logline_post(request.url)),
                    Dispatch(request.method)>>
    IN  IF n.kind = "fault"
        THEN IF Catches({"RequestException"}, n.exc)
             THEN before \o <<LogRecord("error", n.exc)>>
             ELSE before
        ELSE LET body == response_json(n)
             IN  IF body.kind = "raise"
                 THEN IF Catches({"ValueError", "JSONDecodeError"}, body.exc)
                      THEN before \o <<LogRecord("error", body.exc)>>
                      ELSE before
                 ELSE before \o classify_log(request, n)

-----------------------------------------------------------------------------
(* HttpAdapter of src/http_adapter.py, which lowercases the keys of the    *)
(* payload.                                                                *)

\* HttpAdapter.__init__ of src/http_adapter.py.
HttpAdapter_variant_init(hostname, ver) ==
    "https://" \o hostname \o "/api/" \o ver \o "/"

\* key.lower(), on the keys the bodies of the model hold.
lower(key) ==
    CASE key = "Copyright" -> "copyright"
      [] key = "COPYRIGHT" -> "copyright"
      [] key = "Data"      -> "data"
      [] key = "Id"        -> "id"
      [] key = "Name"      -> "name"
      [] OTHER             -> key

\* _transform_keys_in_data leaving the items of a list as they are.
RECURSIVE transform_keys_skips_lists(_)
transform_keys_skips_lists(data) ==
    IF data.t = "dict"
    THEN PyDict([k \in {lower(key) : key \in DOMAIN data.m} |->
                    transform_keys_skips_lists(
                        data.m[CHOOSE key \in DOMAIN data.m : lower(key) = k])])
    ELSE data

\* _transform_keys_in_data.  The bodies of the model hold no two keys of
\* one mapping that differ in case only.
RECURSIVE transform_keys_in_data(_)
transform_keys_in_data(data) ==
    IF data.t = "dict"
    THEN PyDict([k \in {lower(key) : key \in DOMAIN data.m} |->
                    transform_keys_in_data(
                        data.m[CHOOSE key \in DOMAIN data.m : lower(key) = k])])
    ELSE IF data.t = "list"
    THEN PyList([i \in 1..Len(data.l) |-> transform_keys_in_data(data.l[i])])
    ELSE data

\* The status branches of get in src/http_adapter.py.
variant_get_classify(response, data) ==
    IF 200 <= response.status_code /\ response.status_code <= 299
    THEN HttpResult_variant_new(response.status_code, response.reason,
                                transform_keys_in_data(data), EmptyDict)
    ELSE IF 400 <= response.status_code /\ response.status_code <= 499
    THEN HttpResult_variant_new(response.status_code, response.reason,
                                EmptyDict, EmptyDict)
    ELSE IF 500 <= response.status_code /\ response.status_code <= 599
    THEN Raise(HttpAdapterException(StatusMessage(response)))
    ELSE Raise(HttpAdapterException(StatusMessage(response)))

variant_get(self_url, endpoint, ep_params, data, n) ==
    LET full_url == self_url \o endpoint
        request  == [method |-> "GET", url |-> full_url,
                     params |-> ep_params, json |-> None]
    IN  IF n.kind = "fault"
        THEN Done(<<request>>, FALSE, FALSE,
                  IF Catches({"RequestException"}, n.exc)
                  THEN Raise(HttpAdapterException("Request failed"))
                  ELSE Raise(OtherException(n.exc)))
        ELSE LET body == response_json(n)
             IN  IF body.kind = "raise"
                 THEN Done(<<request>>, TRUE, FALSE,
                           IF Catches({"ValueError", "JSONDecodeError"},
                                      body.exc)
                           THEN Raise(HttpAdapterException(
                                    "Bad JSON in response"))
                           ELSE Raise(OtherException(body.exc)))
                 ELSE Done(<<request>>, TRUE, TRUE,
                           variant_get_classify(n, body.value))

-----------------------------------------------------------------------------
(* GraphQLAdapter                                                          *)

\* GraphQLAdapter.__init__ forwarding no version when a base path is given.
GraphQLAdapter_init_drops_version(ver, base_url, hostname, protocol) ==
    IF truthy(base_url)
    THEN HttpAdapter_init(None, base_url, hostname, protocol)
    ELSE IF truthy(ver)
    THEN HttpAdapter_init(ver, None, hostname, protocol)
    ELSE HttpAdapter_init(None, None, hostname, protocol)

\* GraphQLAdapter.__init__: the base URL of the HttpAdapter it constructs.
GraphQLAdapter_init(ver, base_url, hostname, protocol) ==
    IF truthy(base_url) /\ truthy(ver)
    THEN HttpAdapter_init(ver, base_url, hostname, protocol)
    ELSE IF truthy(base_url)
    THEN HttpAdapter_init(None, base_url, hostname, protocol)
    ELSE IF truthy(ver)
    THEN HttpAdapter_init(ver, None, hostname, protocol)
    ELSE HttpAdapter_init(None, None, hostname, protocol)

\* payload = {"query": ..., "variables": variables or {}} of query, with
\* operationName added under `if operation_name:`.
query_payload(query_string, variables, operation_name) ==
    LET payload == ("query" :> query_string)
                   @@ ("variables" :> IF truthy(variables) THEN variables
                                      ELSE EmptyDict)
    IN  IF truthy(operation_name)
        THEN PyDict(("operationName" :> operation_name) @@ payload)
        ELSE PyDict(payload)

query(self_url, query_string, variables, operation_name, n) ==
    post(self_url, "graphql", None,
         query_payload(query_string, variables, operation_name), n)

\* mutation_payload with the text sent under the key "mutation".
mutation_payload_mutation_key(mutation_string, variables, operation_name) ==
    LET payload == ("mutation" :> mutation_string)
                   @@ ("variables" :> IF truthy(variables) THEN variables
                                      ELSE EmptyDict)
    IN  IF truthy(operation_name)
        THEN PyDict(("operationName" :> operation_name) @@ payload)
        ELSE PyDict(payload)

\* The payload of mutation, built the same way by its own code.
mutation_payload(mutation_string, variables, operation_name) ==
    LET payload == ("query" :> mutation_string)
                   @@ ("variables" :> IF truthy(variables) THEN variables
                                      ELSE EmptyDict)
    IN  IF truthy(operation_name)
        THEN PyDict(("operationName" :> operation_name) @@ payload)
        ELSE PyDict(payload)

mutation(self_url, mutation_string, variables, operation_name, n) ==
    post(self_url, "graphql", None,
         mutation_payload(mutation_string, variables, operation_name), n)

\* os.environ.get(name): the value, or None when the variable is unset.
environ_get(env, name) ==
    IF name \in DOMAIN env THEN PyStr(env[name]) ELSE None

\* obj.get(key, default): a dict lookup; any other object has no attribute
\* get, and the attribute access raises AttributeError.
py_get(obj, key, default) ==
    IF obj.t = "dict"
    THEN Return(IF key \in DOMAIN obj.m THEN obj.m[key] ELSE default)
    ELSE Raise(OtherException("AttributeError"))

\* The except (KeyError, TypeError) clause of generate_access_token.
extract_except(raised) ==
    IF Catches({"KeyError", "TypeError"}, raised.exc)
    THEN Raise(HttpAdapterException("Invalid response format: "
                                    \o raised.message))
    ELSE raised

\* The try block reading the key "access_token".
extract_access_token_snake_key(result_data) ==
    LET data == py_get(result_data, "data", EmptyDict)
    IN  IF data.kind = "raise" THEN extract_except(data)
        ELSE
        LET gen == py_get(data.value, "generateAccessToken", EmptyDict)
        IN  IF gen.kind = "raise" THEN extract_except(gen)
            ELSE
            LET access_token == py_get(gen.value, "access_token", None)
            IN  IF access_token.kind = "raise"
                THEN extract_except(access_token)
                ELSE IF ~truthy(access_token.value)
                THEN extract_except(Raise(HttpAdapterException(
                         "No access token found in response")))
                ELSE Return(access_token.value)

\* The try block of generate_access_token, applied to result.data.
extract_access_token(result_data) ==
    LET data == py_get(result_data, "data", EmptyDict)
    IN  IF data.kind = "raise" THEN extract_except(data)
        ELSE
        LET gen == py_get(data.value, "generateAccessToken", EmptyDict)
        IN  IF gen.kind = "raise" THEN extract_except(gen)
            ELSE
            LET access_token == py_get(gen.value, "accessToken", None)
            IN  IF access_token.kind = "raise"
                THEN extract_except(access_token)
                ELSE IF ~truthy(access_token.value)
                THEN extract_except(Raise(HttpAdapterException(
                         "No access token found in response")))
                ELSE Return(access_token.value)

\* The mutation text sent by generate_access_token.
GenerateAccessTokenMutation ==
    "\n        mutation GenerateAccessTokenMutation($refreshToken: String!) {"
    \o "\n          generateAccessToken(refreshToken: $refreshToken) {"
    \o "\n            accessToken"
    \o "\n            __typename"
    \o "\n          }"
    \o "\n        }"
    \o "\n        "

\* resolve_refresh_token with the environment taken before the argument.
resolve_refresh_token_env_first(env, refresh_token) ==
    IF "APA_REFRESH_TOKEN" \in DOMAIN env
    THEN environ_get(env, "APA_REFRESH_TOKEN")
    ELSE refresh_token

\* The refresh token generate_access_token goes on with.
resolve_refresh_token(env, refresh_token) ==
    IF refresh_token = None
    THEN environ_get(env, "APA_REFRESH_TOKEN")
    ELSE refresh_token

\* token_status_check with every 2xx status accepted.
token_status_check_any_2xx(result) ==
    IF ~(200 <= result.status_code /\ result.status_code <= 299)
    THEN Raise(HttpAdapterException("Failed to generate access token: "
                                    \o result.message))
    ELSE extract_access_token(result.data)

\* The check made on the result of the token mutation.
token_status_check(result) ==
    IF result.status_code # 200
    THEN Raise(HttpAdapterException("Failed to generate access token: "
                                    \o result.message))
    ELSE extract_access_token(result.data)

\* generate_access_token turning an error of the POST into the token
\* request failure.
generate_access_token_wraps_errors(self_url, env, refresh_token, n) ==
    LET token == resolve_refresh_token(env, refresh_token)
    IN  IF refresh_token = None /\ ~truthy(token)
        THEN Done(<<>>, FALSE, FALSE,
                  Raise(HttpAdapterException(
                      "No refresh token provided and "
                      \o "APA_REFRESH_TOKEN environment variable not set")))
        ELSE
        LET variables == PyDict("refreshToken" :> token)
            r == mutation(self_url, PyStr(GenerateAccessTokenMutation),
                          variables, None, n)
        IN  IF r.outcome.kind = "raise"
            THEN [r EXCEPT !.outcome =
                     Raise(HttpAdapterException(
                         "Failed to generate access token: "
                         \o r.outcome.message))]
            ELSE [r EXCEPT !.outcome = token_status_check(r.outcome.value)]

generate_access_token(self_url, env, refresh_token, n) ==
    LET token == resolve_refresh_token(env, refresh_token)
    IN  IF refresh_token = None /\ ~truthy(token)
        THEN Done(<<>>, FALSE, FALSE,
                  Raise(HttpAdapterException(
                      "No refresh token provided and "
                      \o "APA_REFRESH_TOKEN environment variable not set")))
        ELSE
        LET variables == PyDict("refreshToken" :> token)
            r == mutation(self_url, PyStr(GenerateAccessTokenMutation),
                          variables, None, n)
        IN  IF r.outcome.kind = "raise" THEN r
            ELSE [r EXCEPT !.outcome = token_status_check(r.outcome.value)]

\* get_access_token calling generate_access_token without the refresh
\* token it was given.
get_access_token_drops_token(hostname, ver, protocol, refresh_token, env, n) ==
    generate_access_token(GraphQLAdapter_init(ver, None, hostname, protocol),
                          env, None, n)

\* GraphQLAdapter.get_access_token: cls(hostname=..., ver=..., protocol=...)
\* leaves base_url at its default, None.
get_access_token(hostname, ver, protocol, refresh_token, env, n) ==
    LET adapter_url == GraphQLAdapter_init(ver, None, hostname, protocol)
    IN  generate_access_token(adapter_url, env, refresh_token, n)

-----------------------------------------------------------------------------
(* The inputs the operations are called with and the answers of the        *)
(* network they are run against.                                           *)

Hostnames == {"gql.poolplayers.com"}

Protocols == {"https", "http"}

Versions == {None, PyStr(""), PyStr("v1")}

BasePaths == {None, PyStr(""), PyStr("api")}

RefreshTokenEnvs == {EmptyMap,
                     "APA_REFRESH_TOKEN" :> "",
                     "APA_REFRESH_TOKEN" :> "env-refresh-token"}

RefreshTokenArgs == {None, PyStr(""), PyStr("refresh-token-123")}

Endpoints == {"test", "/users/1"}

Params == {None, PyDict("page" :> PyStr("1"))}

DataArgs == {None, PyDict("key" :> PyStr("value"))}

QueryStrings == {PyStr("query { teams { id name } }")}

VariableArgs == {None, EmptyDict, PyDict("id" :> PyStr("123"))}

OperationNames == {None, PyStr(""), PyStr("GetTeam")}

\* Status codes on both sides of every boundary the code tests.
StatusCodes == {99, 100, 199, 200, 201, 299, 300, 399,
                400, 404, 499, 500, 503, 599, 600}

Reasons == {"OK", "Not Found"}

\* Transport faults raised by requests.get / requests.post.
Faults == {"ConnectionError", "Timeout", "ConnectTimeout", "ReadTimeout",
           "SSLError", "ProxyError", "TooManyRedirects",
           "ChunkedEncodingError", "RequestException"}

\* Values found under "accessToken".
TokenValues == {None, PyStr(""), PyStr("test-token-123"), PyInt(7)}

Typename == "__typename" :> PyStr("AccessTokenPayload")

\* Values found under "generateAccessToken".
GenValues ==
    {PyDict(t) : t \in {EmptyMap, Typename}}
    \cup {PyDict(("accessToken" :> v) @@ x) :
              v \in TokenValues, x \in {EmptyMap, Typename}}
    \cup {None, PyStr("x"), PyList(<<>>)}

\* Values found under "data".
DataValues ==
    {EmptyDict, PyDict("test" :> PyStr("value"))}
    \cup {PyDict("generateAccessToken" :> g) : g \in GenValues}
    \cup {None, PyStr("x"), PyList(<<>>)}

\* Decoded bodies the token mutation may be answered with.
TokenBodies ==
    {EmptyDict, PyDict("invalid" :> PyStr("format"))}
    \cup {PyDict(("data" :> d) @@ x) :
              d \in DataValues,
              x \in {EmptyMap, "extensions" :> PyStr("x")}}
    \cup {None, PyStr("x"), PyInt(1), PyList(<<EmptyDict>>)}

ValidTokenBody ==
    PyDict("data" :> PyDict("generateAccessToken" :>
        PyDict(("accessToken" :> PyStr("test-token-123")) @@ Typename)))

\* Decoded bodies of any response.
Bodies == {EmptyDict,
           PyDict("data" :> PyDict("test" :> PyStr("value"))),
           PyDict("error" :> PyStr("Not found")),
           PyList(<<PyInt(1)>>),
           None,
           ValidTokenBody}

Response(status_code, reason, body) ==
    [kind |-> "response", status_code |-> status_code, reason |-> reason,
     body |-> body]

Decodable(json) == [decodable |-> TRUE, json |-> json]

Undecodable == [decodable |-> FALSE, json |-> None]

Fault(exc) == [kind |-> "fault", exc |-> exc]

\* Everything the network may do with one dispatched request.
Nets ==
    {Fault(f) : f \in Faults}
    \cup {Response(c, r, Undecodable) : c \in StatusCodes, r \in Reasons}
    \cup {Response(c, r, Decodable(b)) :
              c \in StatusCodes, r \in Reasons, b \in Bodies}
    \cup {Response(200, r, Decodable(b)) : r \in Reasons, b \in TokenBodies}

\* The modules that define an HttpResult class.
ResultModules == {"adapters", "http_adapter"}

\* The data argument of an HttpResult the caller constructs.
ResultDataArgs == {Omitted, PyDict("key" :> PyStr("value")),
                   PyDict(("copyright" :> PyStr("x")) @@ ("key" :> PyStr("value")))}

\* The key the caller adds to a payload.
InjectedKey == "injected"

\* What the network may do with a request of get, post, query or mutation,
\* none of which looks into the decoded body.
HttpNets ==
    {n \in Nets : n.kind = "response" /\ n.body.decodable
                      => n.body.json \in Bodies \ {None, ValidTokenBody}}

\* What query and mutation, which hand the request to post, are run
\* against: one status code of each class.
GraphQLNets ==
    {n \in HttpNets : n.kind = "response"
                          => n.status_code \in {200, 201, 300, 404, 500}}

\* The body of the example: {"Copyright": "x", "Data": {"Id": 1}}.
ExampleBody ==
    PyDict(("Copyright" :> PyStr("x"))
           @@ ("Data" :> PyDict("Id" :> PyInt(1))))

\* {"COPYRIGHT": "x", "data": [{"Id": 1}, "Text", [{"Name": {"Id": 2}}]]}.
NestedBody ==
    PyDict(("COPYRIGHT" :> PyStr("x"))
           @@ ("data" :> PyList(<<PyDict("Id" :> PyInt(1)),
                                  PyStr("Text"),
                                  PyList(<<PyDict("Name" :>
                                      PyDict("Id" :> PyInt(2)))>>)>>)))

\* Decoded bodies the key-lowercasing get is run against.
VariantBodies ==
    {EmptyDict,
     ExampleBody,
     NestedBody,
     PyDict("copyright" :> PyStr("Copyright")),
     PyDict("Data" :> PyDict("Copyright" :> PyStr("Data"))),
     PyList(<<PyDict("Id" :> PyInt(1))>>),
     PyStr("Data"),
     None}

\* What the network may do with a request of the key-lowercasing get.
VariantNets ==
    {Fault(f) : f \in {"ConnectionError", "Timeout"}}
    \cup {Response(c, "OK", Undecodable) : c \in {200, 404}}
    \cup {Response(c, "OK", Decodable(b)) :
              c \in {200, 299, 300, 404, 500}, b \in VariantBodies}

\* The hostname and ver arguments of get_access_token.
AccessTokenHostnames == {"gql.poolplayers.com", "test.com"}

AccessTokenVersions == {None, PyStr("v1"), PyStr("v2")}

\* What the network may do with the request of get_access_token.
AccessTokenNets ==
    {Fault(f) : f \in {"ConnectionError", "Timeout"}}
    \cup {Response(c, "OK", Undecodable) : c \in {200, 500}}
    \cup {Response(c, "OK", Decodable(b)) :
              c \in {201, 300, 404, 500}, b \in {EmptyDict, ValidTokenBody}}
    \cup {Response(200, "OK", Decodable(b)) :
              b \in {EmptyDict, None, ValidTokenBody,
                     PyDict("data" :> PyDict("generateAccessToken" :>
                         PyDict("accessToken" :> PyStr(""))))}}

\* The number of calls made on the adapter in one behaviour.
MaxCalls == 2

NoNet == [kind |-> "none"]

NoCall == [op |-> "none"]

NoOutcome == [kind |-> "none"]

-----------------------------------------------------------------------------
(* The state machine.                                                      *)

Init ==
    /\ \E ver \in Versions, base_url \in BasePaths,
          hostname \in Hostnames, protocol \in Protocols :
           /\ config = [ver |-> ver, base_url |-> base_url,
                        hostname |-> hostname, protocol |-> protocol]
           /\ http_url = HttpAdapter_init(ver, base_url, hostname, protocol)
           /\ url = GraphQLAdapter_init(ver, base_url, hostname, protocol)
    /\ environ \in RefreshTokenEnvs
    /\ pc = "idle"
    /\ call = NoCall
    /\ net = NoNet
    /\ requests = <<>>
    /\ decoded = FALSE
    /\ classified = FALSE
    /\ outcome = NoOutcome
    /\ calls = 0
    /\ default_data = [adapters |-> EmptyDict, http_adapter |-> EmptyDict]
    /\ payload_ref = "none"
    /\ log = <<>>

\* The outcome is a returned HttpResult.
IsResult(out) ==
    /\ out.kind = "return"
    /\ "status_code" \in DOMAIN out.value

\* The handler has run: leave what it did in the state.
Finish(c, n, r) ==
    /\ pc' = "done"
    /\ call' = c
    /\ net' = IF Len(r.requests) = 0 THEN NoNet ELSE n
    /\ requests' = r.requests
    /\ decoded' = r.decoded
    /\ classified' = r.classified
    /\ outcome' = r.outcome
    /\ calls' = calls + 1
    /\ payload_ref' = IF IsResult(r.outcome) THEN "own" ELSE "none"
    /\ log' = IF Len(r.requests) = 0 THEN <<>>
              ELSE http_log(r.requests[1], n)
    /\ UNCHANGED <<config, http_url, url, environ, default_data>>

Get ==
    /\ pc = "idle"
    /\ calls < MaxCalls
    /\ \E endpoint \in Endpoints, ep_params \in Params, data \in DataArgs,
          n \in HttpNets :
           Finish([op |-> "get", endpoint |-> endpoint,
                   ep_params |-> ep_params, data |-> data],
                  n, get(url, endpoint, ep_params, data, n))

Post ==
    /\ pc = "idle"
    /\ calls < MaxCalls
    /\ \E endpoint \in Endpoints, ep_params \in Params, data \in DataArgs,
          n \in HttpNets :
           Finish([op |-> "post", endpoint |-> endpoint,
                   ep_params |-> ep_params, data |-> data],
                  n, post(url, endpoint, ep_params, data, n))

Query ==
    /\ pc = "idle"
    /\ calls < MaxCalls
    /\ \E query_string \in QueryStrings, variables \in VariableArgs,
          operation_name \in OperationNames, n \in GraphQLNets :
           Finish([op |-> "query", query |-> query_string,
                   variables |-> variables,
                   operation_name |-> operation_name],
                  n, query(url, query_string, variables, operation_name, n))

Mutation ==
    /\ pc = "idle"
    /\ calls < MaxCalls
    /\ \E mutation_string \in QueryStrings, variables \in VariableArgs,
          operation_name \in OperationNames, n \in GraphQLNets :
           Finish([op |-> "mutation", query |-> mutation_string,
                   variables |-> variables,
                   operation_name |-> operation_name],
                  n, mutation(url, mutation_string, variables,
                              operation_name, n))

GenerateAccessToken ==
    /\ pc = "idle"
    /\ calls < MaxCalls
    /\ \E refresh_token \in RefreshTokenArgs, n \in Nets :
           Finish([op |-> "generate_access_token",
                   refresh_token |-> refresh_token],
                  n, generate_access_token(url, environ, refresh_token, n))

GetAccessToken ==
    /\ pc = "idle"
    /\ calls < MaxCalls
    /\ \E hostname \in AccessTokenHostnames, ver \in AccessTokenVersions,
          protocol \in Protocols, refresh_token \in RefreshTokenArgs,
          n \in AccessTokenNets :
           Finish([op |-> "get_access_token", hostname |-> hostname,
                   ver |-> ver, protocol |-> protocol,
                   refresh_token |-> refresh_token],
                  n, get_access_token(hostname, ver, protocol, refresh_token,
                                      environ, n))

\* get of src/http_adapter.py, on an adapter constructed for the host of
\* the configuration, with the version left at its default when none is
\* configured.
VariantGet ==
    /\ pc = "idle"
    /\ calls < MaxCalls
    /\ \E endpoint \in Endpoints, n \in VariantNets :
           LET ver == IF config.ver = None THEN "v1" ELSE config.ver.s
               self_url == HttpAdapter_variant_init(config.hostname, ver)
           IN  Finish([op |-> "variant_get", endpoint |-> endpoint,
                       ep_params |-> None, data |-> None],
                      n, variant_get(self_url, endpoint, None, None, n))

\* The caller constructs an HttpResult of either module itself.
NewResult ==
    /\ pc = "idle"
    /\ calls < MaxCalls
    /\ \E module \in ResultModules, data \in ResultDataArgs :
           /\ call' = [op |-> "HttpResult", module |-> module, data |-> data]
           /\ outcome' =
                  IF module = "adapters"
                  THEN HttpResult_new(200, "OK", data, default_data.adapters)
                  ELSE HttpResult_variant_new(200, "OK", data,
                                              default_data.http_adapter)
           /\ payload_ref' = IF data = Omitted THEN module ELSE "own"
    /\ pc' = "done"
    /\ calls' = calls + 1
    /\ UNCHANGED <<config, http_url, url, environ, net, requests, decoded,
                   classified, default_data, log>>

\* The caller adds an entry to the payload of the HttpResult it was handed:
\* result.data[InjectedKey] = 1.  The entry goes into the dict object the
\* payload is, whoever else refers to that object.
MutatePayload ==
    /\ pc = "done"
    /\ IsResult(outcome)
    /\ outcome.value.data.t = "dict"
    /\ InjectedKey \notin DOMAIN outcome.value.data.m
    /\ LET mutated == PyDict((InjectedKey :> PyInt(1))
                             @@ outcome.value.data.m)
       IN  /\ outcome' = [outcome EXCEPT !.value.data = mutated]
           /\ default_data' =
                  IF payload_ref \in DOMAIN default_data
                  THEN [default_data EXCEPT ![payload_ref] = mutated]
                  ELSE default_data
    /\ call' = [op |-> "caller_mutation", of |-> call.op]
    /\ UNCHANGED <<config, http_url, url, environ, pc, net, requests, decoded,
                   classified, calls, payload_ref, log>>

\* The process environment changes between two calls.
SetEnviron(env) ==
    /\ pc = "idle"
    /\ environ # env
    /\ environ' = env
    /\ UNCHANGED <<config, http_url, url, pc, call, net, requests, decoded,
                   classified, outcome, calls, default_data, payload_ref,
                   log>>

\* The caller is done with the outcome of the call.
ReturnToCaller ==
    /\ pc = "done"
    /\ pc' = "idle"
    /\ call' = NoCall
    /\ net' = NoNet
    /\ requests' = <<>>
    /\ decoded' = FALSE
    /\ classified' = FALSE
    /\ outcome' = NoOutcome
    /\ payload_ref' = "none"
    /\ log' = <<>>
    /\ UNCHANGED <<config, http_url, url, environ, calls, default_data>>

Next ==
    \/ Get
    \/ Post
    \/ Query
    \/ Mutation
    \/ GenerateAccessToken
    \/ GetAccessToken
    \/ VariantGet
    \/ NewResult
    \/ MutatePayload
    \/ \E env \in RefreshTokenEnvs : SetEnviron(env)
    \/ ReturnToCaller

Spec == Init /\ [][Next]_vars

-----------------------------------------------------------------------------
(* Properties of HttpAdapter.get and HttpAdapter.post.                     *)

HttpCallDone == pc = "done" /\ call.op \in {"get", "post"}

GotResponse == net.kind = "response"

GotDecodableResponse == net.kind = "response" /\ net.body.decodable

IsAdapterError(message) ==
    /\ outcome.kind = "raise"
    /\ outcome.exc = "HttpAdapterException"
    /\ outcome.message = message

\* C1: a 4xx response with a JSON body makes get and post return a Result
\* with that status code, the reason phrase as message and an empty
\* payload, whatever the body held; no error is raised.
C1_ClientErrorGivesEmptyResult ==
    (HttpCallDone /\ GotDecodableResponse
        /\ 400 <= net.status_code /\ net.status_code <= 499)
    => /\ outcome.kind = "return"
       /\ outcome.value.status_code = net.status_code
       /\ outcome.value.message = net.reason
       /\ outcome.value.data = EmptyDict

C1_Witness ==
    /\ pc = "done" /\ call.op = "post"
    /\ GotDecodableResponse
    /\ net.status_code = 404
    /\ net.body.json = PyDict("error" :> PyStr("Not found"))
    /\ outcome.kind = "return"
    /\ outcome.value.data = EmptyDict

\* C2: a 5xx response, or one whose code is in neither 200..299 nor
\* 400..499, with a JSON body makes get and post raise the adapter error
\* with message "{status_code}: {reason}" and return no Result.
C2_ServerErrorRaises ==
    (HttpCallDone /\ GotDecodableResponse
        /\ ~(200 <= net.status_code /\ net.status_code <= 299)
        /\ ~(400 <= net.status_code /\ net.status_code <= 499))
    => IsAdapterError(ToString(net.status_code) \o ": " \o net.reason)

C2_Witness ==
    /\ pc = "done" /\ call.op = "get"
    /\ GotDecodableResponse
    /\ net.status_code = 300
    /\ net.reason = "OK"
    /\ outcome = [kind |-> "raise", exc |-> "HttpAdapterException",
                  message |-> "300: OK"]

\* C3: a 2xx response with a JSON body makes get and post return a Result
\* with that status code, the reason phrase as message and the decoded body
\* unchanged as payload.
C3_SuccessKeepsBody ==
    (HttpCallDone /\ GotDecodableResponse
        /\ 200 <= net.status_code /\ net.status_code <= 299)
    => /\ outcome.kind = "return"
       /\ outcome.value.status_code = net.status_code
       /\ outcome.value.message = net.reason
       /\ outcome.value.data = net.body.json

C3_Witness ==
    /\ pc = "done" /\ call.op = "get"
    /\ GotDecodableResponse
    /\ net.status_code = 299
    /\ outcome.kind = "return"
    /\ outcome.value.data = PyDict("data" :> PyDict("test" :> PyStr("value")))

\* C4: a response whose body is not JSON makes get and post raise
\* "Bad JSON in response" at every status code, before any status branch is
\* reached: never a Result, never the "{status_code}: {reason}" error.
C4_BadJsonBeforeStatus ==
    (HttpCallDone /\ GotResponse /\ ~net.body.decodable)
    => /\ IsAdapterError("Bad JSON in response")
       /\ decoded
       /\ ~classified

C4_Witness ==
    /\ pc = "done" /\ call.op = "get"
    /\ GotResponse /\ ~net.body.decodable
    /\ net.status_code = 500
    /\ outcome.kind = "raise"
    /\ outcome.message = "Bad JSON in response"

\* C5: every transport fault of the dispatch makes get and post raise the
\* adapter error "Request failed"; no other exception type reaches the
\* caller, and neither body decoding nor status classification happens.
C5_TransportFaultIsRequestFailed ==
    (HttpCallDone /\ net.kind = "fault")
    => /\ IsAdapterError("Request failed")
       /\ ~decoded
       /\ ~classified

C5_Witness ==
    /\ pc = "done" /\ call.op = "post"
    /\ net.kind = "fault" /\ net.exc = "ReadTimeout"
    /\ outcome.kind = "raise"
    /\ outcome.exc = "HttpAdapterException"

-----------------------------------------------------------------------------
(* Properties of GraphQLAdapter.generate_access_token.                     *)

TokenCallDone == pc = "done" /\ call.op = "generate_access_token"

\* The token mutation was answered and post returned a Result for it.
TokenResultReturned ==
    /\ GotDecodableResponse
    /\ \/ 200 <= net.status_code /\ net.status_code <= 299
       \/ 400 <= net.status_code /\ net.status_code <= 499

HasKey(v, k) == v.t = "dict" /\ k \in DOMAIN v.m

\* payload["data"]["generateAccessToken"]["accessToken"] exists, every
\* value on the way being a mapping.
TokenPathReached(payload) ==
    /\ HasKey(payload, "data")
    /\ HasKey(payload.m["data"], "generateAccessToken")
    /\ HasKey(payload.m["data"].m["generateAccessToken"], "accessToken")

TokenAt(payload) ==
    payload.m["data"].m["generateAccessToken"].m["accessToken"]

\* A key of the path is missing, a value on it is null or no mapping, or
\* the token is null or empty.
TokenNotReached(payload) ==
    \/ ~TokenPathReached(payload)
    \/ TokenAt(payload) \in {None, PyStr("")}

TokenExtractionMessages ==
    {"No access token found in response", "Invalid response format: "}

\* C6: when the token mutation returns a Result of status 200 in whose
\* payload the access token cannot be reached as a non-empty token (missing
\* key, null or non-mapping value on the path, payload not a mapping, empty
\* or absent token), generate_access_token raises the adapter error, and no
\* exception of another type.
C6_UnreachableTokenIsAdapterError ==
    (TokenCallDone /\ GotDecodableResponse /\ net.status_code = 200
        /\ TokenNotReached(net.body.json))
    => /\ outcome.kind = "raise"
       /\ outcome.exc = "HttpAdapterException"

\* C7: when the token mutation returns a Result whose status is not 200
\* (another 2xx, any 4xx), generate_access_token raises the adapter error
\* "Failed to generate access token: {message}" and returns no token, even
\* if the response held a valid access token.
C7_Non200IsTokenRequestFailed ==
    (TokenCallDone /\ TokenResultReturned /\ net.status_code # 200)
    => IsAdapterError("Failed to generate access token: " \o net.reason)

C7_Witness ==
    /\ TokenCallDone
    /\ GotDecodableResponse
    /\ net.status_code = 201
    /\ net.body.json = ValidTokenBody
    /\ outcome = [kind |-> "raise", exc |-> "HttpAdapterException",
                  message |-> "Failed to generate access token: OK"]

EnvRefreshTokenMissing ==
    \/ "APA_REFRESH_TOKEN" \notin DOMAIN environ
    \/ environ["APA_REFRESH_TOKEN"] = ""

MissingCredentialMessage ==
    "No refresh token provided and APA_REFRESH_TOKEN environment variable not set"

\* C8: generate_access_token sends as the variable refreshToken its
\* argument when one is given and the value of APA_REFRESH_TOKEN otherwise;
\* with no argument and the variable unset or empty it raises the missing
\* credential error and dispatches no request.
C8_RefreshTokenResolution ==
    TokenCallDone
    => IF call.refresh_token # None
       THEN /\ Len(requests) = 1
            /\ requests[1].json.m["variables"]
                   = PyDict("refreshToken" :> call.refresh_token)
       ELSE IF EnvRefreshTokenMissing
       THEN /\ IsAdapterError(MissingCredentialMessage)
            /\ requests = <<>>
            /\ net = NoNet
       ELSE /\ Len(requests) = 1
            /\ requests[1].json.m["variables"]
                   = PyDict("refreshToken"
                            :> PyStr(environ["APA_REFRESH_TOKEN"]))

\* The argument is given although the environment holds another token.
C8_WitnessArgument ==
    /\ TokenCallDone
    /\ call.refresh_token = PyStr("refresh-token-123")
    /\ environ = ("APA_REFRESH_TOKEN" :> "env-refresh-token")
    /\ Len(requests) = 1
    /\ requests[1].json.m["variables"].m["refreshToken"]
           = PyStr("refresh-token-123")

C8_Witness ==
    /\ TokenCallDone
    /\ call.refresh_token = None
    /\ environ = ("APA_REFRESH_TOKEN" :> "")
    /\ outcome.kind = "raise"
    /\ requests = <<>>

\* C9: with a refresh token resolved and a Result of status 200 whose
\* payload["data"]["generateAccessToken"]["accessToken"] is a non-empty
\* string, generate_access_token returns exactly that string, whatever
\* other keys the payload holds.
C9_TokenReturnedUnchanged ==
    (TokenCallDone /\ GotDecodableResponse /\ net.status_code = 200
        /\ TokenPathReached(net.body.json)
        /\ TokenAt(net.body.json).t = "str"
        /\ TokenAt(net.body.json).s # "")
    => outcome = Return(TokenAt(net.body.json))

C9_Witness ==
    /\ TokenCallDone
    /\ GotDecodableResponse /\ net.status_code = 200
    /\ HasKey(net.body.json, "extensions")
    /\ TokenPathReached(net.body.json)
    /\ HasKey(net.body.json.m["data"].m["generateAccessToken"], "__typename")
    /\ outcome = Return(PyStr("test-token-123"))

-----------------------------------------------------------------------------
(* Properties of GraphQLAdapter.query and GraphQLAdapter.mutation.         *)

GraphQLCallDone == pc = "done" /\ call.op \in {"query", "mutation"}

\* The body the call is to send, operationName being added when `named`.
ExpectedBody(named) ==
    LET body == ("query" :> call.query)
                @@ ("variables" :> IF call.variables = None THEN EmptyDict
                                   ELSE call.variables)
    IN  PyDict(IF named THEN ("operationName" :> call.operation_name) @@ body
               ELSE body)

\* One POST to "graphql" under the base URL, with that body.
SendsOnePost(body) ==
    /\ Len(requests) = 1
    /\ requests[1] = [method |-> "POST", url |-> url \o "graphql",
                      params |-> None, json |-> body]

\* query and mutation do the same with the arguments of the call.
QueryAndMutationAgree ==
    LET q == query(url, call.query, call.variables, call.operation_name, net)
        m == mutation(url, call.query, call.variables, call.operation_name,
                      net)
    IN  /\ q = m
        /\ requests = q.requests
        /\ outcome = q.outcome

\* C10 as stated: operationName is in the body if and only if an
\* operation_name is passed.
C10_OperationNameIffProvided ==
    GraphQLCallDone
    => /\ SendsOnePost(ExpectedBody(call.operation_name # None))
       /\ QueryAndMutationAgree

\* C10, amended: query and mutation each make one POST to "graphql" with
\* body {query, variables or the empty mapping}, plus operationName if and
\* only if an operation_name is passed and is not the empty string; for
\* equal inputs both send the same request and return the same outcome.
C10_OperationNameIffNonEmpty ==
    GraphQLCallDone
    => /\ SendsOnePost(ExpectedBody(call.operation_name # None
                                    /\ call.operation_name # PyStr("")))
       /\ QueryAndMutationAgree

C10_Witness ==
    /\ pc = "done" /\ call.op = "mutation"
    /\ call.operation_name = PyStr("GetTeam")
    /\ call.variables = None
    /\ Len(requests) = 1
    /\ requests[1].json
           = PyDict(("query" :> PyStr("query { teams { id name } }"))
                    @@ ("variables" :> EmptyDict)
                    @@ ("operationName" :> PyStr("GetTeam")))

-----------------------------------------------------------------------------
(* Properties of the constructors.                                         *)

\* An optional constructor argument that is not given, or given empty.
Absent(v) == v = None \/ v = PyStr("")

SchemeAndHost == config.protocol \o "://" \o config.hostname \o "/"

\* C11: the base URL of an HttpAdapter is fixed by (hostname, protocol,
\* version, base_path): {protocol}://{hostname}/ followed by {base_path}/
\* when a base path is present and then by {version}/ when a version is
\* present, an empty string counting as absent.
C11_BaseUrlFromConfig ==
    http_url =
        IF ~Absent(config.base_url) /\ ~Absent(config.ver)
        THEN SchemeAndHost \o config.base_url.s \o "/" \o config.ver.s \o "/"
        ELSE IF ~Absent(config.base_url)
        THEN SchemeAndHost \o config.base_url.s \o "/"
        ELSE IF ~Absent(config.ver)
        THEN SchemeAndHost \o config.ver.s \o "/"
        ELSE SchemeAndHost

C11_Witness ==
    /\ config = [ver |-> PyStr("v1"), base_url |-> PyStr("api"),
                 hostname |-> "gql.poolplayers.com", protocol |-> "http"]
    /\ http_url = "http://gql.poolplayers.com/api/v1/"
    /\ pc = "done"

\* C12: the adapter owned by a GraphQLAdapter has the base URL of an
\* HttpAdapter constructed from the same four values, and every query and
\* mutation is dispatched to that base URL followed by "graphql" with no
\* query parameters; with the defaults, to
\* https://gql.poolplayers.com/graphql.
C12_OwnedAdapterSameBaseUrl ==
    /\ url = http_url
    /\ GraphQLCallDone
       => /\ Len(requests) = 1
          /\ requests[1].url = http_url \o "graphql"
          /\ requests[1].params = None
          /\ (config.ver = None /\ config.base_url = None
                 /\ config.hostname = "gql.poolplayers.com"
                 /\ config.protocol = "https")
             => requests[1].url = "https://gql.poolplayers.com/graphql"

C12_Witness ==
    /\ pc = "done" /\ call.op = "query"
    /\ config.ver = PyStr("v1") /\ config.base_url = PyStr("api")
    /\ config.protocol = "https"
    /\ Len(requests) = 1
    /\ requests[1].url = "https://gql.poolplayers.com/api/v1/graphql"

-----------------------------------------------------------------------------
(* Properties of the requests dispatched.                                  *)

\* C13: get and post dispatch to the base URL immediately followed by the
\* endpoint, nothing added, removed or normalised, with the query
\* parameters as passed (None staying None); post sends its data as the
\* JSON body and get sends no body, whatever its data argument.
C13_RequestAsPassed ==
    HttpCallDone
    => /\ Len(requests) = 1
       /\ requests[1].url = url \o call.endpoint
       /\ requests[1].params = call.ep_params
       /\ call.op = "post" => /\ requests[1].method = "POST"
                              /\ requests[1].json = call.data
       /\ call.op = "get" => /\ requests[1].method = "GET"
                             /\ requests[1].json = None

C13_Witness ==
    /\ pc = "done" /\ call.op = "get"
    /\ call.endpoint = "/users/1"
    /\ call.data = PyDict("key" :> PyStr("value"))
    /\ call.ep_params = None
    /\ requests = <<[method |-> "GET",
                     url |-> "https://gql.poolplayers.com/v1//users/1",
                     params |-> None, json |-> None]>>

CallDone ==
    /\ pc = "done"
    /\ call.op \in {"get", "post", "query", "mutation",
                    "generate_access_token"}

\* generate_access_token was called with no refresh token to go on with.
NoRefreshToken ==
    /\ call.op = "generate_access_token"
    /\ call.refresh_token = None
    /\ EnvRefreshTokenMissing

\* C14: nothing is retried: get, post, query and mutation dispatch exactly
\* one request whatever the outcome, and generate_access_token exactly one
\* POST when a refresh token is resolved and none when it is not.
C14_ExactlyOneDispatch ==
    CallDone
    => IF NoRefreshToken
       THEN requests = <<>>
       ELSE /\ Len(requests) = 1
            /\ requests[1].method = IF call.op = "get" THEN "GET" ELSE "POST"

C14_Witness ==
    /\ TokenCallDone
    /\ net.kind = "fault"
    /\ outcome.kind = "raise"
    /\ Len(requests) = 1

-----------------------------------------------------------------------------
(* Properties of the HttpResult container.                                 *)

\* C16: an HttpResult constructed without a payload has the empty mapping
\* as its payload, in both modules, whatever HttpResults were constructed
\* before and whatever the caller did to their payloads.
C16_DefaultPayloadIsEmpty ==
    (pc = "done" /\ call.op = "HttpResult" /\ call.data = Omitted)
    => /\ IsResult(outcome)
       /\ outcome.value.data = EmptyDict

-----------------------------------------------------------------------------
(* Independence of a call from what happened before it.                    *)

AdapterError(message) ==
    [kind |-> "raise", exc |-> "HttpAdapterException", message |-> message]

\* What get, post, query and mutation give for the answer `n` of the
\* network, as a function of that answer alone.
OutcomeOfAnswer(n) ==
    IF n.kind = "fault" THEN AdapterError("Request failed")
    ELSE IF ~n.body.decodable THEN AdapterError("Bad JSON in response")
    ELSE IF 200 <= n.status_code /\ n.status_code <= 299
    THEN [kind |-> "return",
          value |-> [status_code |-> n.status_code, message |-> n.reason,
                     data |-> n.body.json]]
    ELSE IF 400 <= n.status_code /\ n.status_code <= 499
    THEN [kind |-> "return",
          value |-> [status_code |-> n.status_code, message |-> n.reason,
                     data |-> EmptyDict]]
    ELSE AdapterError(ToString(n.status_code) \o ": " \o n.reason)

\* A value on the way to the access token that is there and is no mapping.
NonMappingOnPath(payload) ==
    \/ payload.t # "dict"
    \/ /\ HasKey(payload, "data")
       /\ \/ payload.m["data"].t # "dict"
          \/ /\ HasKey(payload.m["data"], "generateAccessToken")
             /\ payload.m["data"].m["generateAccessToken"].t # "dict"

\* What generate_access_token gives for a payload of status 200.
OutcomeOfPayload(payload) ==
    IF NonMappingOnPath(payload)
    THEN [kind |-> "raise", exc |-> "AttributeError", message |-> ""]
    ELSE IF TokenPathReached(payload)
            /\ TokenAt(payload) \notin {None, PyStr(""), PyInt(0)}
    THEN [kind |-> "return", value |-> TokenAt(payload)]
    ELSE AdapterError("No access token found in response")

\* What generate_access_token gives, as a function of its argument, the
\* environment and the answer of the network.
OutcomeOfTokenCall(refresh_token, env, n) ==
    IF /\ refresh_token = None
       /\ \/ "APA_REFRESH_TOKEN" \notin DOMAIN env
          \/ env["APA_REFRESH_TOKEN"] = ""
    THEN AdapterError(MissingCredentialMessage)
    ELSE LET r == OutcomeOfAnswer(n)
         IN  IF r.kind = "raise" THEN r
             ELSE IF r.value.status_code # 200
             THEN AdapterError("Failed to generate access token: "
                               \o r.value.message)
             ELSE OutcomeOfPayload(r.value.data)

\* The outcome of the call in the state, from the call and its own answer.
OutcomeOfCall ==
    IF call.op = "generate_access_token"
    THEN OutcomeOfTokenCall(call.refresh_token, environ, net)
    ELSE OutcomeOfAnswer(net)

\* C15: whatever calls were made before, and whatever the caller did to
\* the payloads of earlier results, the base URL stays the one fixed at
\* construction and the outcome of a call is the one its arguments (with
\* the environment, for the refresh token) and its own response determine.
C15_CallsAreIndependent ==
    /\ [](CallDone => outcome = OutcomeOfCall)
    /\ [][url' = url /\ http_url' = http_url]_vars

\* A client error answered after the caller has written into the payload
\* of an HttpResult constructed without data.
C15_Witness ==
    /\ pc = "done" /\ call.op = "get"
    /\ calls = 2
    /\ default_data.adapters # EmptyDict
    /\ GotDecodableResponse /\ net.status_code = 404
    /\ outcome.kind = "return"
    /\ outcome.value.data = EmptyDict

-----------------------------------------------------------------------------
(* C17                                                                     *)

VariantCallDone == pc = "done" /\ call.op = "variant_get"

\* Keys that hold no uppercase letter.
LowercaseKeys == {"copyright", "data", "id", "name"}

\* Every mapping key found in v, at every depth.
RECURSIVE AllKeys(_)
AllKeys(v) ==
    IF v.t = "dict"
    THEN DOMAIN v.m \cup UNION {AllKeys(v.m[k]) : k \in DOMAIN v.m}
    ELSE IF v.t = "list"
    THEN UNION {AllKeys(v.l[i]) : i \in 1..Len(v.l)}
    ELSE {}

\* out is orig with the keys of its mappings lowercased and nothing else
\* changed.
RECURSIVE Lowered(_, _)
Lowered(orig, out) ==
    IF orig.t = "dict"
    THEN /\ out.t = "dict"
         /\ DOMAIN out.m = {lower(k) : k \in DOMAIN orig.m}
         /\ \A k \in DOMAIN orig.m : Lowered(orig.m[k], out.m[lower(k)])
    ELSE IF orig.t = "list"
    THEN /\ out.t = "list"
         /\ Len(out.l) = Len(orig.l)
         /\ \A i \in 1..Len(orig.l) : Lowered(orig.l[i], out.l[i])
    ELSE out = orig

\* C17: in the key-lowercasing variant, a 2xx response whose decoded body
\* is a mapping makes get return a payload whose mapping keys are lowercase
\* at every depth, mappings inside sequences included, whose other values,
\* sequence order and sequence length are those of the body, and whose top
\* level holds no key "copyright" whatever the case of that key in the
\* body; {"Copyright": "x", "Data": {"Id": 1}} gives {"data": {"id": 1}}.
C17_VariantLowercasesKeys ==
    (/\ VariantCallDone
     /\ GotDecodableResponse
     /\ 200 <= net.status_code /\ net.status_code <= 299
     /\ net.body.json.t = "dict")
    => /\ IsResult(outcome)
       /\ outcome.value.status_code = net.status_code
       /\ LET body == net.body.json
              payload == outcome.value.data
          IN  /\ payload.t = "dict"
              /\ AllKeys(payload) \subseteq LowercaseKeys
              /\ "copyright" \notin DOMAIN payload.m
              /\ DOMAIN payload.m =
                     {lower(k) : k \in DOMAIN body.m} \ {"copyright"}
              /\ \A k \in DOMAIN body.m :
                     lower(k) # "copyright"
                         => Lowered(body.m[k], payload.m[lower(k)])
              /\ body = ExampleBody
                     => payload = PyDict("data" :> PyDict("id" :> PyInt(1)))

C17_Witness ==
    /\ VariantCallDone
    /\ GotDecodableResponse
    /\ net.status_code = 200
    /\ net.body.json = NestedBody
    /\ IsResult(outcome)
    /\ outcome.value.data =
           PyDict("data" :> PyList(<<PyDict("id" :> PyInt(1)),
                                     PyStr("Text"),
                                     PyList(<<PyDict("name" :>
                                         PyDict("id" :> PyInt(2)))>>)>>))

-----------------------------------------------------------------------------
(* C18                                                                     *)

\* The words the line after the dispatch classifies the response with.
Classifications == {"success", "Invalid Request", "Internal error occurred"}

\* One log line, then the dispatch, then one log line that carries a
\* classification, the numeric status, the reason phrase and the resolved
\* URL.
OneLineBeforeAndOneAfter ==
    /\ Len(log) = 3
    /\ log[1].ev = "log"
    /\ log[2].ev = "dispatch"
    /\ log[3].ev = "log"
    /\ \E success \in Classifications :
           log[3].msg = logline_post_format(requests[1].url, success,
                            net.status_code, net.reason,
                            response_url(requests[1]))

\* C18: every get and post call that receives a response with a decodable
\* body emits exactly one log line before the dispatch and exactly one
\* after it, in that order, the line after carrying the classification, the
\* numeric status, the reason phrase and the final resolved URL, for every
\* status class: 2xx, 4xx, 5xx and any other status.
C18_OneLogLineBeforeAndAfter ==
    (HttpCallDone /\ GotDecodableResponse) => OneLineBeforeAndOneAfter

\* The same for the statuses 200..299 and 400..599 alone.
ClassifiedStatusIsLogged ==
    (/\ HttpCallDone
     /\ GotDecodableResponse
     /\ \/ 200 <= net.status_code /\ net.status_code <= 299
        \/ 400 <= net.status_code /\ net.status_code <= 599)
    => OneLineBeforeAndOneAfter

\* A status outside 200..299 and 400..599 is followed by no log line.
UnclassifiedStatusIsNotLogged ==
    (/\ HttpCallDone
     /\ GotDecodableResponse
     /\ ~ \/ 200 <= net.status_code /\ net.status_code <= 299
          \/ 400 <= net.status_code /\ net.status_code <= 599)
    => /\ Len(log) = 2
       /\ log[1].ev = "log"
       /\ log[2].ev = "dispatch"

-----------------------------------------------------------------------------
(* C19                                                                     *)

AccessTokenCallDone == pc = "done" /\ call.op = "get_access_token"

\* A GraphQLAdapter constructed from the hostname, version and protocol of
\* the call, and generate_access_token called once on it with the refresh
\* token of the call.
ConstructThenGenerate ==
    generate_access_token(
        GraphQLAdapter_init(call.ver, None, call.hostname, call.protocol),
        environ, call.refresh_token, net)

\* C19: get_access_token has the outcome of constructing a GraphQLAdapter
\* from its hostname, version and protocol and calling generate_access_token
\* once with its refresh_token: the same token is returned or the same error
\* propagated, and the refresh_token is forwarded unchanged, an absent one
\* staying absent, so that the environment is consulted for it.
C19_GetAccessTokenIsConstructThenGenerate ==
    AccessTokenCallDone
    => /\ IF call.refresh_token # None
          THEN /\ Len(requests) = 1
               /\ requests[1].json.m["variables"]
                      = PyDict("refreshToken" :> call.refresh_token)
          ELSE IF EnvRefreshTokenMissing
          THEN /\ requests = <<>>
               /\ outcome = AdapterError(MissingCredentialMessage)
          ELSE /\ Len(requests) = 1
               /\ requests[1].json.m["variables"]
                      = PyDict("refreshToken"
                               :> PyStr(environ["APA_REFRESH_TOKEN"]))
       /\ (Len(requests) = 1 /\ call.ver # None)
          => requests[1].url = call.protocol \o "://" \o call.hostname
                                   \o "/" \o call.ver.s \o "/graphql"
       /\ outcome = OutcomeOfTokenCall(call.refresh_token, environ, net)
       /\ outcome = ConstructThenGenerate.outcome
       /\ requests = ConstructThenGenerate.requests

C19_Witness ==
    /\ AccessTokenCallDone
    /\ call.hostname = "test.com"
    /\ call.ver = PyStr("v2")
    /\ call.protocol = "http"
    /\ call.refresh_token = PyStr("refresh-token-123")
    /\ environ = ("APA_REFRESH_TOKEN" :> "env-refresh-token")
    /\ Len(requests) = 1
    /\ requests[1].url = "http://test.com/v2/graphql"
    /\ requests[1].json.m["variables"].m["refreshToken"]
           = PyStr("refresh-token-123")
    /\ GotDecodableResponse
    /\ net.status_code = 200
    /\ outcome = [kind |-> "return", value |-> PyStr("test-token-123")]

-----------------------------------------------------------------------------
(* C20                                                                     *)

\* The token mutation was dispatched and its POST raised instead of
\* returning a Result.
TokenPostRaised ==
    /\ TokenCallDone
    /\ Len(requests) = 1
    /\ ~(GotResponse /\ TokenResultReturned)

\* The message of the error post raises for the answer in the state.
PostErrorMessage ==
    IF net.kind = "fault" THEN "Request failed"
    ELSE IF ~net.body.decodable THEN "Bad JSON in response"
    ELSE ToString(net.status_code) \o ": " \o net.reason

\* The outcome is the token request failure, whatever its message.
IsTokenRequestFailed ==
    /\ outcome.kind = "raise"
    /\ outcome.exc = "HttpAdapterException"
    /\ \E message \in Reasons \cup {"Request failed", "Bad JSON in response"}
                      \cup {ToString(c) \o ": " \o r :
                                c \in StatusCodes, r \in Reasons} :
           outcome.message = "Failed to generate access token: " \o message

\* C20: an error raised by the POST of the token mutation passes through
\* generate_access_token unchanged: "{status_code}: {reason}" on a 5xx or
\* other unclassified status, "Request failed" on a transport fault, "Bad
\* JSON in response" on an undecodable body; so the token request failure
\* arises only from a returned Result whose code is a 2xx other than 200 or
\* a 4xx.
C20_PostErrorsPassThrough ==
    /\ TokenPostRaised
       => /\ outcome = AdapterError(PostErrorMessage)
          /\ ~IsTokenRequestFailed
          /\ outcome.message \notin TokenExtractionMessages
    /\ (TokenCallDone /\ IsTokenRequestFailed)
       => /\ GotDecodableResponse
          /\ net.status_code # 200
          /\ \/ 200 <= net.status_code /\ net.status_code <= 299
             \/ 400 <= net.status_code /\ net.status_code <= 499

C20_Witness ==
    /\ TokenPostRaised
    /\ GotDecodableResponse
    /\ net.status_code = 503
    /\ net.body.json = ValidTokenBody
    /\ outcome = AdapterError("503: " \o net.reason)

====
